---- MODULE Spec2Model ----
(***************************************************************************)
(* Model of the enhance_forward gateway (src/enhance_forward/api.py):      *)
(* the handler create_chat_completion, its helper get_last_user_request,   *)
(* the clarification and forwarding generators.                            *)
(*                                                                         *)
(* Text is a sequence of tokens.  A token is one ordinary character or one *)
(* whole marker "<userRequest>" / "</userRequest>".  The ordinary          *)
(* characters used ("a", "b") do not occur inside the markers, so a        *)
(* literal match on the real string always falls on token boundaries.      *)
(* Request contents are written with the markers and "a"; the small model  *)
(* answers with "a" and "b", so a rewritten text can be told from the      *)
(* original.                                                               *)
(* Python's None is the one-element sequence None, which no text equals.   *)
(*                                                                         *)
(* The tag utilities of src/enhance_forward/prompt_utils.py are modelled   *)
(* as operators over token sequences of their own (PromptTokens) and are   *)
(* applied by the actions of SpecPrompt.                                   *)
(***************************************************************************)
EXTENDS Integers, Sequences, FiniteSets, TLC

\* ---------------------------------------------------------------- bounds
MaxLen == 4
MaxToolCalls == 2
MaxChunks == 2
MaxIssues == 3
MaxText == 5

\* ------------------------------------------------------------- constants
OPEN == "<userRequest>"
CLOSE == "</userRequest>"
Chars == {"a", "b"}
Tokens == {"a", OPEN, CLOSE}
None == << "None" >>

mini_deployment == "MINI_DEPLOYMENT"
full_deployment == "FULL_DEPLOYMENT"

\* all sequences over S of length at most n
SeqsUpTo(S, n) == UNION {[1..k -> S] : k \in 0..n}

\* ------------------------------------------------------------ text tools
\* index of the first occurrence of token t in s at or after position i, 0 if none
RECURSIVE IndexFrom(_, _, _)
IndexFrom(s, t, i) ==
    IF i > Len(s) THEN 0
    ELSE IF s[i] = t THEN i
    ELSE IndexFrom(s, t, i + 1)

\* re.findall(r"<userRequest>(.*?)</userRequest>", text, re.DOTALL) scanning from i:
\* leftmost opening marker, shortest content up to the nearest closing marker,
\* then the scan resumes after that closing marker (non-overlapping matches).
RECURSIVE FindAllFrom(_, _)
FindAllFrom(text, i) ==
    LET p == IndexFrom(text, OPEN, i)
        q == IF p = 0 THEN 0 ELSE IndexFrom(text, CLOSE, p + 1)
    IN  IF p = 0 \/ q = 0 THEN << >>
        ELSE << SubSeq(text, p + 1, q - 1) >> \o FindAllFrom(text, q + 1)

FindAll(text) == FindAllFrom(text, 1)

\* api.py get_last_user_request: the last match, None when there is no match
get_last_user_request(text) ==
    LET matches == FindAll(text)
    IN  IF matches # << >> THEN matches[Len(matches)] ELSE None

\* does old occur in s starting at position i
StartsAt(s, old, i) ==
    /\ i + Len(old) - 1 <= Len(s)
    /\ SubSeq(s, i, i + Len(old) - 1) = old

\* str.replace(old, new) for a non-empty old, scanning from position i:
\* every non-overlapping occurrence, left to right, is replaced
RECURSIVE ReplaceFrom(_, _, _, _)
ReplaceFrom(s, old, new, i) ==
    IF i > Len(s) THEN << >>
    ELSE IF StartsAt(s, old, i) THEN new \o ReplaceFrom(s, old, new, i + Len(old))
    ELSE << s[i] >> \o ReplaceFrom(s, old, new, i + 1)

\* str.replace(old, new) for the empty old: new is inserted before every
\* character and at the end
RECURSIVE Intersperse(_, _, _)
Intersperse(s, new, i) ==
    IF i > Len(s) THEN new
    ELSE new \o << s[i] >> \o Intersperse(s, new, i + 1)

\* variant: str.replace(old, new, 1), only the first occurrence is replaced
StrReplace_First(s, old, new) ==
    IF \E i \in 1..(Len(s) + 1) : StartsAt(s, old, i)
    THEN LET i == CHOOSE i \in 1..(Len(s) + 1) :
                    /\ StartsAt(s, old, i)
                    /\ \A j \in 1..(i - 1) : ~StartsAt(s, old, j)
         IN  SubSeq(s, 1, i - 1) \o new \o SubSeq(s, i + Len(old), Len(s))
    ELSE s

\* Python str.replace(old, new) on str arguments
StrReplace(s, old, new) ==
    IF old = << >> THEN Intersperse(s, new, 1)
    ELSE ReplaceFrom(s, old, new, 1)

\* ------------------------------------------------------- request domain
\* values the caller may give the "stream" field ("Absent": key not in the body)
StreamValues == {"True", "False", "Absent", "1", "'true'"}

\* variant: the stream field tested for truthiness instead of identity with True
StreamIsTrue_Truthy(v) == v \in {"True", "1", "'true'"}

\* chat_request.get('stream', False) is True
StreamIsTrue(v) == v = "True"

\* the messages before the last one, passed through by the caller
EarlierMessages == << [role |-> "system", content |-> << "a" >>] >>

\* the "content" key of the last message is missing from the body
Missing == << "Missing" >>

\* contents of the last message: a text, null (None) or no "content" key at all
Contents == SeqsUpTo(Tokens, MaxLen) \cup {None, Missing}

ChatRequests ==
    {[model |-> "caller-model", stream |-> st, temperature |-> "0.7",
      max_tokens |-> "256", tools |-> << "caller_tool" >>,
      messages |-> EarlierMessages \o << [role |-> "user", content |-> c] >>] :
        st \in StreamValues, c \in Contents}

LastContent(req) == req.messages[Len(req.messages)].content

\* ----------------------------------------------------- auxiliary replies
Absent == "<absent>"

\* The "arguments" attribute of a tool call, by what json.loads makes of it:
\*   form "none"    arguments is None
\*   form "invalid" a string that is not JSON
\*   form "array"   JSON whose top-level value is not an object
\*   form "object"  a JSON object; question / contradictions as found in it
\*                  (ctype "absent": key missing, "list": array of strings,
\*                   "number": a JSON number)
ToolArguments ==
    {[form |-> f, question |-> Absent, ctype |-> "absent", contradictions |-> << >>] :
        f \in {"none", "invalid", "array", "object"}}
    \cup {[form |-> "object", question |-> "Q?", ctype |-> "list",
           contradictions |-> << "x", "y" >>],
          [form |-> "object", question |-> "Q?", ctype |-> "number",
           contradictions |-> << >>]}

NoArguments == [form |-> "none", question |-> Absent, ctype |-> "absent", contradictions |-> << >>]

ToolCalls ==
    {[name |-> "request_clarification", arguments |-> a] : a \in ToolArguments}
    \cup {[name |-> "other_tool", arguments |-> NoArguments]}

\* choice.message.content: None, the empty text, or a one-character text
ReplyContents == {None, << >>} \cup {<< c >> : c \in Chars}

Replies ==
    {[state |-> "returned", id |-> "cmpl-1", content |-> c, tool_calls |-> t] :
        c \in ReplyContents, t \in SeqsUpTo(ToolCalls, MaxToolCalls)}

\* replies whose one tool call is a request_clarification with a list of issues
IssueTexts == {"x", "y", "z"}

IssueReplies ==
    {[state |-> "returned", id |-> "cmpl-1", content |-> None,
      tool_calls |-> << [name |-> "request_clarification",
                         arguments |-> [form |-> "object", question |-> q, ctype |-> "list",
                                        contradictions |-> c]] >>] :
        q \in {Absent, "Q?"}, c \in SeqsUpTo(IssueTexts, MaxIssues)}

NoReply == [state |-> "none", id |-> "", content |-> None, tool_calls |-> << >>]
RaisedReply == [state |-> "raised", id |-> "", content |-> None, tool_calls |-> << >>]

\* the i-th chunk of the large model's stream; chunks differ in their delta content
Chunk(i) ==
    [id |-> "cmpl-2", content |-> << ToString(i) >>, finish_reason |-> "",
     model |-> full_deployment]

\* ------------------------------------------------- handler: pure helpers
\* lines 168-179: the exception raised while reading one request_clarification
\* call, "ok" when none is raised.  json.loads(None) raises TypeError,
\* json.loads of non-JSON raises JSONDecodeError, .get on a non-dict raises
\* AttributeError, enumerate over a number raises TypeError.
ParseToolArgs(a) ==
    IF a.form = "none" THEN "TypeError"
    ELSE IF a.form = "invalid" THEN "JSONDecodeError"
    ELSE IF a.form = "array" THEN "AttributeError"
    ELSE IF a.ctype = "number" THEN "TypeError"
    ELSE "ok"

\* variant: the loop goes on after a well-formed request_clarification call
\* instead of returning the clarification stream
RECURSIVE ScanToolCalls_NoReturn(_, _)
ScanToolCalls_NoReturn(calls, i) ==
    IF i > Len(calls) THEN [kind |-> "forward", index |-> 0]
    ELSE IF calls[i].name = "request_clarification"
         THEN LET r == ParseToolArgs(calls[i].arguments)
              IN  IF r = "ok" THEN ScanToolCalls_NoReturn(calls, i + 1)
                  ELSE IF r \in {"JSONDecodeError", "AttributeError"}
                       THEN [kind |-> "forward", index |-> i]
                  ELSE [kind |-> "raise", index |-> i]
         ELSE ScanToolCalls_NoReturn(calls, i + 1)

\* lines 161-202: the loop over tool calls from index i.  Result:
\*   kind "clarify" with the index of the deciding call,
\*   kind "forward" (loop ended or left by break),
\*   kind "raise" (an exception the inner except clause does not catch).
RECURSIVE ScanToolCalls(_, _)
ScanToolCalls(calls, i) ==
    IF i > Len(calls) THEN [kind |-> "forward", index |-> 0]
    ELSE IF calls[i].name = "request_clarification"
         THEN LET r == ParseToolArgs(calls[i].arguments)
              IN  IF r = "ok" THEN [kind |-> "clarify", index |-> i]
                  ELSE IF r \in {"JSONDecodeError", "AttributeError"}
                       THEN [kind |-> "forward", index |-> i]
                  ELSE [kind |-> "raise", index |-> i]
         ELSE ScanToolCalls(calls, i + 1)

\* lines 170-171: the .get defaults
QuestionOf(a) == IF a.question = Absent THEN "Please clarify your request." ELSE a.question
ContradictionsOf(a) == IF a.ctype = "absent" THEN << >> ELSE a.contradictions

\* variant: enumerate(contradictions) without the start value 1
RECURSIVE NumberedFrom_ZeroBased(_, _)
NumberedFrom_ZeroBased(cs, i) ==
    IF i > Len(cs) THEN << >>
    ELSE << ToString(i - 1), ". ", cs[i], "\n" >> \o NumberedFrom_ZeroBased(cs, i + 1)

\* lines 178-179: the numbered lines for contradictions i..Len
RECURSIVE NumberedFrom(_, _)
NumberedFrom(cs, i) ==
    IF i > Len(cs) THEN << >>
    ELSE << ToString(i), ". ", cs[i], "\n" >> \o NumberedFrom(cs, i + 1)

\* lines 177-179: clarification_response
ClarificationResponse(a) ==
    << QuestionOf(a), "\n\nContradictions found:\n" >> \o NumberedFrom(ContradictionsOf(a), 1)

\* chunk.model_dump_json(): the JSON text of a chunk
ModelDumpJson(chunk) == << "json", chunk >>

\* lines 194 and 235: f"data: {chunk.model_dump_json()}\n\n"
Frame(chunk) == << "data: ", ModelDumpJson(chunk), "\n\n" >>

\* lines 182-193: the synthetic chunk of the clarification branch
ClarificationChunk(reply, text) ==
    [id |-> reply.id, content |-> text, finish_reason |-> "stop", model |-> mini_deployment]

\* line 205: choice.message.content or prompt  (None and "" are falsy)
CleanedContent(reply, p) ==
    IF reply.content = None \/ reply.content = << >> THEN p ELSE reply.content

\* with the element at the last index replaced
SetLastContent(msgs, c) ==
    [msgs EXCEPT ![Len(msgs)] = [@ EXCEPT !.content = c]]

\* ------------------------------------------------------ prompt_utils.py
\* A text given to the utilities is a sequence of these tokens: a whole
\* lower-case opening tag, the start of an upper-case opening tag (its
\* attributes and ">" follow as further tokens), a lone ">", a closing tag in
\* either case, and a newline.  "<prompt" occurs only at the start of the
\* first two and "</prompt>" only as the closing tokens, so every match of
\* the pattern falls on token boundaries.
PromptTokens == {"<prompt>", "<PROMPT", ">", "</prompt>", "</PROMPT>", "\n"}

\* re.IGNORECASE: the token with its letters in lower case
Lower(tok) ==
    IF tok = "<PROMPT" THEN "<prompt"
    ELSE IF tok = "</PROMPT>" THEN "</prompt>"
    ELSE tok

\* the token starts with what "<prompt" matches
OpensTag(tok) == Lower(tok) \in {"<prompt", "<prompt>"}

\* the token holds a ">" (as its last character), which [^>] does not match
HasGT(tok) == Lower(tok) \in {">", "<prompt>", "</prompt>"}

\* the token is what "</prompt>" matches
ClosesTag(tok) == Lower(tok) = "</prompt>"

\* [^>]*> from index i: the index of the first token holding ">", 0 if none
RECURSIVE IndexOfGT(_, _)
IndexOfGT(t, i) ==
    IF i > Len(t) THEN 0
    ELSE IF HasGT(t[i]) THEN i
    ELSE IndexOfGT(t, i + 1)

\* variant: a greedy group, (.*)</prompt>, which runs to the last closing token
RECURSIVE IndexOfClose_Greedy(_, _)
IndexOfClose_Greedy(t, i) ==
    IF i > Len(t) THEN 0
    ELSE IF IndexOfClose_Greedy(t, i + 1) # 0 THEN IndexOfClose_Greedy(t, i + 1)
    ELSE IF ClosesTag(t[i]) THEN i
    ELSE 0

\* (.*?)</prompt> from index i under re.DOTALL: the index of the first
\* closing token, 0 if none; "." passes every token, the newline included
RECURSIVE IndexOfClose(_, _)
IndexOfClose(t, i) ==
    IF i > Len(t) THEN 0
    ELSE IF ClosesTag(t[i]) THEN i
    ELSE IndexOfClose(t, i + 1)

NoMatch == [found |-> FALSE, start |-> 0, tag_end |-> 0, close |-> 0]

\* the pattern <prompt[^>]*>(.*?)</prompt> matched at index i exactly
MatchAt(t, i) ==
    IF i > Len(t) \/ ~OpensTag(t[i]) THEN NoMatch
    ELSE LET j == IndexOfGT(t, i)
         IN  IF j = 0 THEN NoMatch
             ELSE LET k == IndexOfClose(t, j + 1)
                  IN  IF k = 0 THEN NoMatch
                      ELSE [found |-> TRUE, start |-> i, tag_end |-> j, close |-> k]

\* re.search from index i: the leftmost index at which the pattern matches
RECURSIVE SearchFrom(_, _)
SearchFrom(t, i) ==
    IF i > Len(t) THEN NoMatch
    ELSE IF MatchAt(t, i).found THEN MatchAt(t, i)
    ELSE SearchFrom(t, i + 1)

\* match.group(1)
Group1(t, m) == SubSeq(t, m.tag_end + 1, m.close - 1)

\* lines 59-62
extract_prompt_content(t) ==
    LET m == SearchFrom(t, 1)
    IN  IF m.found THEN Group1(t, m) ELSE None

\* re.findall from index i: the groups of the non-overlapping matches, in order
RECURSIVE FindAllPromptsFrom(_, _)
FindAllPromptsFrom(t, i) ==
    LET m == SearchFrom(t, i)
    IN  IF m.found THEN << Group1(t, m) >> \o FindAllPromptsFrom(t, m.close + 1)
        ELSE << >>

\* lines 88-91
extract_all_prompt_contents(t) == FindAllPromptsFrom(t, 1)

\* the replacement template r'\\1' of line 170: backslash, backslash, "1"
KeepTemplate == << "\\", "\\", "1" >>

\* re.sub's reading of a template from index i: an escaped backslash is one
\* backslash, backslash-1 is group 1, any other character is itself
RECURSIVE ExpandTemplate(_, _, _)
ExpandTemplate(tpl, i, group) ==
    IF i > Len(tpl) THEN << >>
    ELSE IF tpl[i] = "\\" /\ i < Len(tpl) /\ tpl[i + 1] = "\\"
         THEN << "\\" >> \o ExpandTemplate(tpl, i + 2, group)
    ELSE IF tpl[i] = "\\" /\ i < Len(tpl) /\ tpl[i + 1] = "1"
         THEN group \o ExpandTemplate(tpl, i + 2, group)
    ELSE << tpl[i] >> \o ExpandTemplate(tpl, i + 1, group)

\* re.sub from index i: every non-overlapping match replaced by the template
RECURSIVE SubFrom(_, _, _)
SubFrom(t, i, tpl) ==
    LET m == SearchFrom(t, i)
    IN  IF m.found
        THEN SubSeq(t, i, m.start - 1) \o ExpandTemplate(tpl, 1, Group1(t, m))
             \o SubFrom(t, m.close + 1, tpl)
        ELSE SubSeq(t, i, Len(t))

\* lines 167-174
remove_prompt_tags(t, keep_content) ==
    IF keep_content THEN SubFrom(t, 1, KeepTemplate) ELSE SubFrom(t, 1, << >>)

\* no utility function has been called
NoCall == [fn |-> "none", keep_content |-> FALSE, result |-> None]

\* ------------------------------------------------------------------ state
VARIABLES
    openai_client,   \* request.app.state.openai_client: "client" or "None"
    inbound,         \* the request body as received (never changed)
    chat_request,    \* the request body, which the handler rewrites in place
    pc,              \* position of the request task
    prompt,          \* local prompt (line 78)
    user_request,    \* local user_request (line 79)
    aux_calls,       \* the small-model calls issued, in order
    cleanup_result,  \* what the small-model call gave: NoReply, RaisedReply or a reply
    cleaned_content, \* local cleaned_content (line 205)
    fwd_calls,       \* the bodies posted to the large model, in order
    upstream,        \* the chunks the upstream stream has delivered, in order
    events,          \* the outbound events written to the client, in order
    response,        \* what the caller gets: status 0 (nothing yet), 200 or 500
    stream_open,     \* the large model's stream (result, line 225) is open
    suspended,       \* the locals of a second request task waiting at an await
    text_arg,        \* prompt_utils: the text a utility function is given
    outcome          \* prompt_utils: the function called and what it returned

vars == << openai_client, inbound, chat_request, pc, prompt, user_request, aux_calls,
           cleanup_result, cleaned_content, fwd_calls, upstream, events, response,
           stream_open, suspended, text_arg, outcome >>

NoResponse == [status |-> 0, error |-> ""]

\* lines 239-243: every exception of the try block becomes HTTPException(500)
HTTP500(e) == [status |-> 500, error |-> e]

\* line 196-199 and 236: StreamingResponse(..., media_type="text/event-stream")
StreamingResponse == [status |-> 200, error |-> ""]

\* no second request task
NoTask == [pc |-> "none"]

Init ==
    /\ openai_client \in {"client", "None"}
    /\ inbound \in ChatRequests
    /\ chat_request = inbound
    /\ pc = "received"
    /\ prompt = None
    /\ user_request = None
    /\ aux_calls = << >>
    /\ cleanup_result = NoReply
    /\ cleaned_content = None
    /\ fwd_calls = << >>
    /\ upstream = << >>
    /\ events = << >>
    /\ response = NoResponse
    /\ stream_open = FALSE
    /\ suspended = NoTask
    /\ text_arg = << >>
    /\ outcome = NoCall

\* lines 45-50 and 74: the two checks made before anything else; "" when both pass
Precheck(client, req) ==
    IF client = "None" THEN "OpenAI client not initialized"
    ELSE IF ~StreamIsTrue(req.stream) THEN "Only streaming responses are supported currently"
    ELSE ""

\* lines 71-74, 239-243: a request that fails a check ends with status 500
Reject ==
    /\ pc = "received"
    /\ Precheck(openai_client, chat_request) # ""
    /\ pc' = "failed"
    /\ response' = HTTP500(Precheck(openai_client, chat_request))
    /\ UNCHANGED << text_arg, outcome, suspended, stream_open, openai_client, inbound, chat_request, prompt, user_request, aux_calls,
                    cleanup_result, cleaned_content, fwd_calls, upstream, events >>

\* lines 76-79, 239-243: the checks pass but the last message has no text:
\* a missing "content" key raises KeyError at line 78, a null content raises
\* TypeError in re.findall at line 55
RejectContent ==
    /\ pc = "received"
    /\ Precheck(openai_client, chat_request) = ""
    /\ LastContent(chat_request) \in {None, Missing}
    /\ chat_request' = [chat_request EXCEPT !.model = full_deployment]
    /\ pc' = "failed"
    /\ response' = HTTP500(IF LastContent(chat_request) = Missing THEN "KeyError"
                           ELSE "TypeError")
    /\ UNCHANGED << text_arg, outcome, suspended, stream_open, openai_client, inbound, prompt, user_request, aux_calls,
                    cleanup_result, cleaned_content, fwd_calls, upstream, events >>

\* variant: the large-model post is issued together with the small-model call
StartAuxiliary_Eager ==
    /\ pc = "received"
    /\ Precheck(openai_client, chat_request) = ""
    /\ LastContent(chat_request) \notin {None, Missing}
    /\ chat_request' = [chat_request EXCEPT !.model = full_deployment]
    /\ prompt' = LastContent(chat_request)
    /\ user_request' = get_last_user_request(LastContent(chat_request))
    /\ aux_calls' = Append(aux_calls,
                           [model |-> mini_deployment,
                            user_turn |-> get_last_user_request(LastContent(chat_request)),
                            stream |-> FALSE])
    /\ fwd_calls' = Append(fwd_calls, [chat_request EXCEPT !.model = full_deployment])
    /\ pc' = "aux_pending"
    /\ UNCHANGED << text_arg, outcome, suspended, stream_open, openai_client, inbound, cleanup_result, cleaned_content,
                    upstream, events, response >>

\* lines 76-157: model overwritten, prompt and user_request taken, the
\* small-model call issued; the task then waits for its result
StartAuxiliary ==
    /\ pc = "received"
    /\ Precheck(openai_client, chat_request) = ""
    /\ LastContent(chat_request) \notin {None, Missing}
    /\ chat_request' = [chat_request EXCEPT !.model = full_deployment]
    /\ prompt' = LastContent(chat_request)
    /\ user_request' = get_last_user_request(LastContent(chat_request))
    /\ aux_calls' = Append(aux_calls,
                           [model |-> mini_deployment,
                            user_turn |-> get_last_user_request(LastContent(chat_request)),
                            stream |-> FALSE])
    /\ pc' = "aux_pending"
    /\ UNCHANGED << text_arg, outcome, suspended, stream_open, openai_client, inbound, cleanup_result, cleaned_content, fwd_calls,
                    upstream, events, response >>

\* variant: a failed small-model call is swallowed and the request forwarded as it is
AuxiliaryFails_Fallback ==
    /\ pc = "aux_pending"
    /\ cleanup_result' = RaisedReply
    /\ fwd_calls' = Append(fwd_calls, chat_request)
    /\ pc' = "fwd_pending"
    /\ UNCHANGED << text_arg, outcome, suspended, stream_open, openai_client, inbound, chat_request, prompt, user_request, aux_calls,
                    cleaned_content, upstream, events, response >>

\* lines 150-157, 239-243: the small-model call raises
AuxiliaryFails ==
    /\ pc = "aux_pending"
    /\ cleanup_result' = RaisedReply
    /\ pc' = "failed"
    /\ response' = HTTP500("APIError")
    /\ UNCHANGED << text_arg, outcome, suspended, stream_open, openai_client, inbound, chat_request, prompt, user_request, aux_calls,
                    cleaned_content, fwd_calls, upstream, events >>

\* lines 160-199: the reply's deciding tool call is a well-formed
\* request_clarification; the handler returns the one-shot stream
AuxiliaryClarifies ==
    /\ pc = "aux_pending"
    /\ \E reply \in Replies :
        /\ ScanToolCalls(reply.tool_calls, 1).kind = "clarify"
        /\ cleanup_result' = reply
        /\ pc' = "clarify"
        /\ response' = StreamingResponse
        /\ UNCHANGED << text_arg, outcome, suspended, stream_open, openai_client, inbound, chat_request, prompt, user_request, aux_calls,
                        cleaned_content, fwd_calls, upstream, events >>

\* lines 160-179, 239-243: reading the tool call raises an exception the
\* inner except clause does not name
AuxiliaryParseRaises ==
    /\ pc = "aux_pending"
    /\ \E reply \in Replies :
        /\ ScanToolCalls(reply.tool_calls, 1).kind = "raise"
        /\ cleanup_result' = reply
        /\ pc' = "failed"
        /\ response' = HTTP500("TypeError")
        /\ UNCHANGED << text_arg, outcome, suspended, stream_open, openai_client, inbound, chat_request, prompt, user_request, aux_calls,
                        cleaned_content, fwd_calls, upstream, events >>

\* lines 204-212, 239-243: no clarification; user_request is None, so
\* str.replace raises TypeError
AuxiliaryReplaceRaises ==
    /\ pc = "aux_pending"
    /\ \E reply \in Replies :
        /\ ScanToolCalls(reply.tool_calls, 1).kind = "forward"
        /\ user_request = None
        /\ cleanup_result' = reply
        /\ cleaned_content' = CleanedContent(reply, prompt)
        /\ pc' = "failed"
        /\ response' = HTTP500("TypeError")
        /\ UNCHANGED << text_arg, outcome, suspended, stream_open, openai_client, inbound, chat_request, prompt, user_request, aux_calls,
                        fwd_calls, upstream, events >>

\* variant: the body posted is built anew from model, messages and stream,
\* the caller's other fields being left out
AuxiliaryForwards_Rebuild ==
    /\ pc = "aux_pending"
    /\ \E reply \in Replies :
        /\ ScanToolCalls(reply.tool_calls, 1).kind = "forward"
        /\ user_request # None
        /\ cleanup_result' = reply
        /\ cleaned_content' = CleanedContent(reply, prompt)
        /\ LET body == [chat_request EXCEPT
                            !.temperature = Absent, !.max_tokens = Absent, !.tools = << >>,
                            !.messages =
                                SetLastContent(chat_request.messages,
                                    StrReplace(LastContent(chat_request), user_request,
                                               CleanedContent(reply, prompt)))]
           IN  /\ chat_request' = body
               /\ fwd_calls' = Append(fwd_calls, body)
        /\ pc' = "fwd_pending"
        /\ UNCHANGED << text_arg, outcome, suspended, stream_open, openai_client, inbound, prompt, user_request, aux_calls,
                        upstream, events, response >>

\* lines 204-231: no clarification; the last message is rewritten and the
\* body is posted to the large model; the task then waits for the stream
AuxiliaryForwards ==
    /\ pc = "aux_pending"
    /\ \E reply \in Replies :
        /\ ScanToolCalls(reply.tool_calls, 1).kind = "forward"
        /\ user_request # None
        /\ cleanup_result' = reply
        /\ cleaned_content' = CleanedContent(reply, prompt)
        /\ LET body == [chat_request EXCEPT !.messages =
                            SetLastContent(chat_request.messages,
                                StrReplace(LastContent(chat_request), user_request,
                                           CleanedContent(reply, prompt)))]
           IN  /\ chat_request' = body
               /\ fwd_calls' = Append(fwd_calls, body)
        /\ pc' = "fwd_pending"
        /\ UNCHANGED << text_arg, outcome, suspended, stream_open, openai_client, inbound, prompt, user_request, aux_calls,
                        upstream, events, response >>

\* lines 225-231, 239-243: the post to the large model raises
ForwardFails ==
    /\ pc = "fwd_pending"
    /\ pc' = "failed"
    /\ response' = HTTP500("APIError")
    /\ UNCHANGED << text_arg, outcome, suspended, stream_open, openai_client, inbound, chat_request, prompt, user_request, aux_calls,
                    cleanup_result, cleaned_content, fwd_calls, upstream, events >>

\* lines 225-236: the post returns the stream; the handler returns the response
ForwardStarts ==
    /\ pc = "fwd_pending"
    /\ pc' = "streaming"
    /\ response' = StreamingResponse
    /\ stream_open' = TRUE
    /\ UNCHANGED << text_arg, outcome, suspended, openai_client, inbound, chat_request, prompt, user_request, aux_calls,
                    cleanup_result, cleaned_content, fwd_calls, upstream, events >>

\* variant: the newest event is put in front of the ones already written
StreamChunk_Reorder ==
    /\ pc = "streaming"
    /\ Len(upstream) < MaxChunks
    /\ upstream' = Append(upstream, Chunk(Len(upstream) + 1))
    /\ events' = << Frame(Chunk(Len(upstream) + 1)) >> \o events
    /\ UNCHANGED << text_arg, outcome, suspended, stream_open, openai_client, inbound, chat_request, pc, prompt, user_request,
                    aux_calls, cleanup_result, cleaned_content, fwd_calls, response >>

\* lines 234-235: the next upstream chunk arrives and is written as one event
StreamChunk ==
    /\ pc = "streaming"
    /\ Len(upstream) < MaxChunks
    /\ upstream' = Append(upstream, Chunk(Len(upstream) + 1))
    /\ events' = Append(events, Frame(Chunk(Len(upstream) + 1)))
    /\ UNCHANGED << text_arg, outcome, suspended, stream_open, openai_client, inbound, chat_request, pc, prompt, user_request,
                    aux_calls, cleanup_result, cleaned_content, fwd_calls, response >>

\* line 234: the upstream stream is exhausted, which closes it; the generator returns
StreamEnds ==
    /\ pc = "streaming"
    /\ pc' = "done"
    /\ stream_open' = FALSE
    /\ UNCHANGED << text_arg, outcome, suspended, openai_client, inbound, chat_request, prompt, user_request, aux_calls,
                    cleanup_result, cleaned_content, fwd_calls, upstream, events, response >>

\* variant: the generator catches the fault and writes an error frame
StreamFaults_ErrorFrame ==
    /\ pc = "streaming"
    /\ pc' = "aborted"
    /\ stream_open' \in BOOLEAN
    /\ events' = Append(events, << "data: ", << "json", "error" >>, "\n\n" >>)
    /\ UNCHANGED << text_arg, outcome, suspended, openai_client, inbound, chat_request, prompt, user_request, aux_calls,
                    cleanup_result, cleaned_content, fwd_calls, upstream, response >>

\* line 234: the upstream stream raises while the generator waits for a chunk;
\* the response has started, so the connection is cut.  The handler does not
\* close the stream; whether the fault itself closed it is the provider's matter.
StreamFaults ==
    /\ pc = "streaming"
    /\ pc' = "aborted"
    /\ stream_open' \in BOOLEAN
    /\ UNCHANGED << text_arg, outcome, suspended, openai_client, inbound, chat_request, prompt, user_request, aux_calls,
                    cleanup_result, cleaned_content, fwd_calls, upstream, events, response >>

\* lines 233-236: the client goes away while the response is streamed; the
\* server cancels the response task, event_generator is left suspended and
\* pulls no further chunk.  Nothing in the handler or the generator closes
\* result (no finally, no async with, no close call).
ClientDisconnects ==
    /\ pc = "streaming"
    /\ pc' = "disconnected"
    /\ UNCHANGED << text_arg, outcome, suspended, stream_open, openai_client, inbound, chat_request, prompt, user_request,
                    aux_calls, cleanup_result, cleaned_content, fwd_calls, upstream, events,
                    response >>

\* lines 233-236: the abandoned generator and its stream are collected at some
\* later time, if ever; the collector's finalizer closes the stream
FinalizerCloses ==
    /\ pc = "disconnected"
    /\ stream_open
    /\ stream_open' = FALSE
    /\ UNCHANGED << text_arg, outcome, suspended, openai_client, inbound, chat_request, pc, prompt, user_request,
                    aux_calls, cleanup_result, cleaned_content, fwd_calls, upstream, events,
                    response >>

\* lines 181-194: the clarification generator yields its one event
ClarifyYields ==
    /\ pc = "clarify"
    /\ LET call == cleanup_result.tool_calls[ScanToolCalls(cleanup_result.tool_calls, 1).index]
       IN  events' = Append(events,
                Frame(ClarificationChunk(cleanup_result, ClarificationResponse(call.arguments))))
    /\ pc' = "clarify_yielded"
    /\ UNCHANGED << text_arg, outcome, suspended, stream_open, openai_client, inbound, chat_request, prompt, user_request, aux_calls,
                    cleanup_result, cleaned_content, fwd_calls, upstream, response >>

\* lines 181-194: the clarification generator is resumed and returns
ClarifyEnds ==
    /\ pc = "clarify_yielded"
    /\ pc' = "done"
    /\ UNCHANGED << text_arg, outcome, suspended, stream_open, openai_client, inbound, chat_request, prompt, user_request, aux_calls,
                    cleanup_result, cleaned_content, fwd_calls, upstream, events, response >>

Next ==
    \/ Reject
    \/ RejectContent
    \/ StartAuxiliary
    \/ AuxiliaryFails
    \/ AuxiliaryClarifies
    \/ AuxiliaryParseRaises
    \/ AuxiliaryReplaceRaises
    \/ AuxiliaryForwards
    \/ ForwardFails
    \/ ForwardStarts
    \/ StreamChunk
    \/ StreamEnds
    \/ StreamFaults
    \/ ClientDisconnects
    \/ FinalizerCloses
    \/ ClarifyYields
    \/ ClarifyEnds

Spec == Init /\ [][Next]_vars

\* ------------------------------------------- the clarification branch alone
\* one streaming request with a marker pair, answered by a clarification
\* call whose issues range over all lists up to MaxIssues
InitClarify ==
    /\ Init
    /\ openai_client = "client"
    /\ inbound.stream = "True"
    /\ LastContent(inbound) = << OPEN, "a", CLOSE >>

\* lines 160-199, as AuxiliaryClarifies, for the replies of IssueReplies
AuxiliaryClarifiesIssues ==
    /\ pc = "aux_pending"
    /\ \E reply \in IssueReplies :
        /\ ScanToolCalls(reply.tool_calls, 1).kind = "clarify"
        /\ cleanup_result' = reply
        /\ pc' = "clarify"
        /\ response' = StreamingResponse
        /\ UNCHANGED << text_arg, outcome, suspended, stream_open, openai_client, inbound, chat_request, prompt,
                        user_request, aux_calls, cleaned_content, fwd_calls, upstream,
                        events >>

NextClarify ==
    \/ StartAuxiliary
    \/ AuxiliaryClarifiesIssues
    \/ ClarifyYields
    \/ ClarifyEnds

SpecClarify == InitClarify /\ [][NextClarify]_vars

\* ------------------------------------------ the prompt utilities alone
\* a text of at most MaxText tokens, and no request in the handler
InitPrompt ==
    /\ text_arg \in SeqsUpTo(PromptTokens, MaxText)
    /\ outcome = NoCall
    /\ openai_client = "client"
    /\ inbound = CHOOSE r \in ChatRequests : r.stream = "True" /\ LastContent(r) = << >>
    /\ chat_request = inbound
    /\ pc = "received"
    /\ prompt = None
    /\ user_request = None
    /\ aux_calls = << >>
    /\ cleanup_result = NoReply
    /\ cleaned_content = None
    /\ fwd_calls = << >>
    /\ upstream = << >>
    /\ events = << >>
    /\ response = NoResponse
    /\ stream_open = FALSE
    /\ suspended = NoTask

\* lines 12-62
ExtractPromptContent ==
    /\ outcome = NoCall
    /\ outcome' = [fn |-> "extract_prompt_content", keep_content |-> FALSE,
                   result |-> extract_prompt_content(text_arg)]
    /\ UNCHANGED << text_arg, openai_client, inbound, chat_request, pc, prompt, user_request,
                    aux_calls, cleanup_result, cleaned_content, fwd_calls, upstream, events,
                    response, stream_open, suspended >>

\* lines 65-91
ExtractAllPromptContents ==
    /\ outcome = NoCall
    /\ outcome' = [fn |-> "extract_all_prompt_contents", keep_content |-> FALSE,
                   result |-> extract_all_prompt_contents(text_arg)]
    /\ UNCHANGED << text_arg, openai_client, inbound, chat_request, pc, prompt, user_request,
                    aux_calls, cleanup_result, cleaned_content, fwd_calls, upstream, events,
                    response, stream_open, suspended >>

\* lines 148-174
RemovePromptTags ==
    /\ outcome = NoCall
    /\ \E keep_content \in BOOLEAN :
          outcome' = [fn |-> "remove_prompt_tags", keep_content |-> keep_content,
                      result |-> remove_prompt_tags(text_arg, keep_content)]
    /\ UNCHANGED << text_arg, openai_client, inbound, chat_request, pc, prompt, user_request,
                    aux_calls, cleanup_result, cleaned_content, fwd_calls, upstream, events,
                    response, stream_open, suspended >>

NextPrompt ==
    \/ ExtractPromptContent
    \/ ExtractAllPromptContents
    \/ RemovePromptTags

SpecPrompt == InitPrompt /\ [][NextPrompt]_vars

\* --------------------------------------------- two requests, interleaved
\* lines 60-64: each call of the handler has its own parameters and locals;
\* the only objects two calls have in common are request.app.state.openai_client
\* and the module's deployment names (lines 27-28), none of which is written
Locals ==
    [inbound |-> inbound, chat_request |-> chat_request, pc |-> pc, prompt |-> prompt,
     user_request |-> user_request, aux_calls |-> aux_calls,
     cleanup_result |-> cleanup_result, cleaned_content |-> cleaned_content,
     fwd_calls |-> fwd_calls, upstream |-> upstream, events |-> events,
     response |-> response, stream_open |-> stream_open]

\* the locals of a task that has just been given the body req
NewTask(req) ==
    [inbound |-> req, chat_request |-> req, pc |-> "received", prompt |-> None,
     user_request |-> None, aux_calls |-> << >>, cleanup_result |-> NoReply,
     cleaned_content |-> None, fwd_calls |-> << >>, upstream |-> << >>,
     events |-> << >>, response |-> NoResponse, stream_open |-> FALSE]

\* the bodies of the two requests: with and without a marker pair, null content,
\* streaming or not
ConcurrentRequests ==
    {r \in ChatRequests :
        /\ r.stream \in {"True", "False"}
        /\ LastContent(r) \in {<< OPEN, "a", CLOSE >>, << "a", OPEN, "a", CLOSE >>,
                               << "a" >>, None}}

\* the small model's replies to them: no text or a text, no tool call or one
ConcurrentReplies ==
    {[state |-> "returned", id |-> "cmpl-1", content |-> c, tool_calls |-> t] :
        c \in {None, << "b" >>}, t \in {<< >>} \cup {<< x >> : x \in ToolCalls}}

InitConcurrent ==
    /\ openai_client \in {"client", "None"}
    /\ inbound \in ConcurrentRequests
    /\ chat_request = inbound
    /\ pc = "received"
    /\ prompt = None
    /\ user_request = None
    /\ aux_calls = << >>
    /\ cleanup_result = NoReply
    /\ cleaned_content = None
    /\ fwd_calls = << >>
    /\ upstream = << >>
    /\ events = << >>
    /\ response = NoResponse
    /\ stream_open = FALSE
    /\ suspended \in {NewTask(r) : r \in ConcurrentRequests}
    /\ text_arg = << >>
    /\ outcome = NoCall

\* variant: prompt and user_request kept in module-level names, which the
\* two tasks would then share
Switch_SharedPrompt ==
    /\ suspended # NoTask
    /\ suspended' = Locals
    /\ inbound' = suspended.inbound
    /\ chat_request' = suspended.chat_request
    /\ pc' = suspended.pc
    /\ aux_calls' = suspended.aux_calls
    /\ cleanup_result' = suspended.cleanup_result
    /\ cleaned_content' = suspended.cleaned_content
    /\ fwd_calls' = suspended.fwd_calls
    /\ upstream' = suspended.upstream
    /\ events' = suspended.events
    /\ response' = suspended.response
    /\ stream_open' = suspended.stream_open
    /\ UNCHANGED << text_arg, outcome, openai_client, prompt, user_request >>

\* lines 150, 225, 234 and the yields of lines 194 and 235: at an await or a
\* yield, and before a task starts or after it ends, the event loop may run
\* the other task; the handler's locals go with their task, the client stays
Switch ==
    /\ suspended # NoTask
    /\ suspended' = Locals
    /\ inbound' = suspended.inbound
    /\ chat_request' = suspended.chat_request
    /\ pc' = suspended.pc
    /\ prompt' = suspended.prompt
    /\ user_request' = suspended.user_request
    /\ aux_calls' = suspended.aux_calls
    /\ cleanup_result' = suspended.cleanup_result
    /\ cleaned_content' = suspended.cleaned_content
    /\ fwd_calls' = suspended.fwd_calls
    /\ upstream' = suspended.upstream
    /\ events' = suspended.events
    /\ response' = suspended.response
    /\ stream_open' = suspended.stream_open
    /\ UNCHANGED << text_arg, outcome, openai_client >>

\* the steps of the running task, its small-model replies from ConcurrentReplies
NextConcurrent ==
    \/ Reject
    \/ RejectContent
    \/ StartAuxiliary
    \/ AuxiliaryFails
    \/ AuxiliaryClarifies /\ cleanup_result' \in ConcurrentReplies
    \/ AuxiliaryParseRaises /\ cleanup_result' \in ConcurrentReplies
    \/ AuxiliaryReplaceRaises /\ cleanup_result' \in ConcurrentReplies
    \/ AuxiliaryForwards /\ cleanup_result' \in ConcurrentReplies
    \/ ForwardFails
    \/ ForwardStarts
    \/ StreamChunk
    \/ StreamEnds
    \/ StreamFaults
    \/ ClientDisconnects
    \/ FinalizerCloses
    \/ ClarifyYields
    \/ ClarifyEnds
    \/ Switch

SpecConcurrent == InitConcurrent /\ [][NextConcurrent]_vars

\* ================================================================ claims

\* ---- notions the claims use, stated without the handler's operators
\* index of the first tool call named request_clarification, 0 when there is none
FirstClarificationCall(calls) ==
    IF \E i \in 1..Len(calls) : calls[i].name = "request_clarification"
    THEN CHOOSE i \in 1..Len(calls) :
            /\ calls[i].name = "request_clarification"
            /\ \A j \in 1..(i - 1) : calls[j].name # "request_clarification"
    ELSE 0

\* arguments that give a question and a sequence of issues (missing keys take defaults)
WellFormedArguments(a) == a.form = "object" /\ a.ctype \in {"absent", "list"}

\* the outcome of a returned reply is Clarification
IsClarification(reply) ==
    /\ reply.state = "returned"
    /\ FirstClarificationCall(reply.tool_calls) > 0
    /\ WellFormedArguments(reply.tool_calls[FirstClarificationCall(reply.tool_calls)].arguments)

\* the reply invokes request_clarification with malformed arguments
IsMalformedClarification(reply) ==
    /\ reply.state = "returned"
    /\ FirstClarificationCall(reply.tool_calls) > 0
    /\ ~WellFormedArguments(reply.tool_calls[FirstClarificationCall(reply.tool_calls)].arguments)

\* the reply carries no usable free text
NoFreeText(reply) == reply.state = "returned" /\ reply.content \in {None, << >>}

\* positions <<p, q>> of the marker pairs of text, in order, scanning from i
RECURSIVE PairSpansFrom(_, _)
PairSpansFrom(text, i) ==
    LET p == IndexFrom(text, OPEN, i)
        q == IF p = 0 THEN 0 ELSE IndexFrom(text, CLOSE, p + 1)
    IN  IF p = 0 \/ q = 0 THEN << >>
        ELSE << << p, q >> >> \o PairSpansFrom(text, q + 1)

HasPair(text) == PairSpansFrom(text, 1) # << >>

\* InnerRequest as the specification defines it
InnerRequest(text) ==
    LET spans == PairSpansFrom(text, 1)
    IN  IF spans = << >> THEN text
        ELSE SubSeq(text, spans[Len(spans)][1] + 1, spans[Len(spans)][2] - 1)

\* text with the span of InnerRequest replaced by new, all else untouched
SubstituteInner(text, new) ==
    LET spans == PairSpansFrom(text, 1)
    IN  IF spans = << >> THEN new
        ELSE SubSeq(text, 1, spans[Len(spans)][1]) \o new
             \o SubSeq(text, spans[Len(spans)][2], Len(text))

\* C1: a request whose stream field is not the boolean true is rejected with
\* an error response, and neither the small-model call nor the large-model
\* call is ever issued for it.
C1_NonStreamingRejected ==
    inbound.stream # "True" =>
        /\ aux_calls = << >>
        /\ fwd_calls = << >>
        /\ events = << >>
        /\ pc \in {"received", "failed"}
        /\ (pc = "failed" => response.status = 500)

C1_Witness ==
    /\ inbound.stream \in {"1", "'true'"}
    /\ openai_client = "client"
    /\ pc = "failed"

\* C2: when the outcome is Clarification (the deciding request_clarification
\* call has well-formed arguments) the stream carries exactly one event and
\* then ends, and no large-model call is made at any point.
C2_ClarificationOneEvent ==
    IsClarification(cleanup_result) =>
        /\ fwd_calls = << >>
        /\ upstream = << >>
        /\ pc \in {"clarify", "clarify_yielded", "done"}
        /\ response.status = 200
        /\ (pc = "clarify" => events = << >>)
        /\ (pc \in {"clarify_yielded", "done"} => Len(events) = 1)

C2_Witness ==
    /\ IsClarification(cleanup_result)
    /\ Len(cleanup_result.tool_calls) = 2
    /\ pc = "done"
    /\ Len(events) = 1

\* C3: when the outcome is Cleaned, the body posted to the large model has
\* its last message content equal to the original content with InnerRequest
\* replaced by the cleaned text and every character outside it untouched,
\* and names the full model.
C3_ForwardedSubstitution ==
    fwd_calls # << >> =>
        /\ fwd_calls[1].model = full_deployment
        /\ LastContent(fwd_calls[1]) = SubstituteInner(prompt, cleaned_content)

\* C4: get_last_user_request returns the content of the last marker pair
\* when there is one, and the whole text unchanged when there is none.
C4_ExtractorLastOrWhole ==
    aux_calls # << >> =>
        user_request = (IF HasPair(prompt)
                        THEN FindAll(prompt)[Len(FindAll(prompt))]
                        ELSE prompt)

\* C5: for a streaming request whose last content has no marker pair, the
\* small model receives the entire content as its final user turn, and with
\* outcome Cleaned the request is forwarded with the last content equal to
\* the cleaned text and the full model selected.
C5_NoMarkersWholeContent ==
    (aux_calls # << >> /\ ~HasPair(prompt)) =>
        /\ aux_calls[1].user_turn = prompt
        /\ ( (cleanup_result.state = "returned"
              /\ FirstClarificationCall(cleanup_result.tool_calls) = 0) =>
                /\ fwd_calls # << >>
                /\ fwd_calls[1].model = full_deployment
                /\ LastContent(fwd_calls[1]) =
                      (IF NoFreeText(cleanup_result) THEN prompt
                       ELSE cleanup_result.content) )

\* C6: a reply that invokes request_clarification with malformed arguments
\* never ends the request in a request-level error: the request goes on to
\* the forwarding branch.
C6_MalformedArgumentsForward ==
    IsMalformedClarification(cleanup_result) =>
        fwd_calls # << >>

\* C7: when the reply yields no usable free text, the cleaned text is the
\* original InnerRequest, so the forwarded last content is identical to the
\* original last content.
C7_NoFreeTextKeepsContent ==
    (fwd_calls # << >> /\ NoFreeText(cleanup_result)) =>
        LastContent(fwd_calls[1]) = prompt

\* C8: if the small-model call fails, the request ends in a server-facing
\* failure, no event is emitted, the large-model call is never made and the
\* small-model call is not retried.
C8_AuxiliaryFailureSurfaces ==
    cleanup_result.state = "raised" =>
        /\ pc = "failed"
        /\ response.status = 500
        /\ events = << >>
        /\ fwd_calls = << >>
        /\ Len(aux_calls) = 1

C8_Witness ==
    /\ cleanup_result.state = "raised"
    /\ pc = "failed"
    /\ HasPair(prompt)

\* C9: the large-model call is issued only after the small-model call has
\* returned; it is never started while that call is unissued or pending.
C9_AuxiliaryPrecedesForward ==
    /\ (pc \in {"received", "aux_pending"} => fwd_calls = << >>)
    /\ (fwd_calls # << >> =>
            /\ Len(aux_calls) = 1
            /\ cleanup_result.state = "returned")

C9_Witness ==
    /\ pc = "fwd_pending"
    /\ Len(fwd_calls) = 1
    /\ cleanup_result.state = "returned"

\* C10: in the forwarding branch the events written are, in order, the
\* frames "data: " + serialisation + blank line of the chunks received so
\* far, one event per chunk; when the stream completes after n chunks there
\* are exactly n events.
C10_OneFramePerChunkInOrder ==
    fwd_calls # << >> =>
        /\ Len(events) = Len(upstream)
        /\ \A i \in 1..Len(upstream) :
              events[i] = << "data: ", ModelDumpJson(upstream[i]), "\n\n" >>

C10_Witness ==
    /\ pc = "done"
    /\ Len(upstream) >= 2
    /\ upstream[1] # upstream[2]
    /\ Len(events) = Len(upstream)

\* C11: if the upstream stream faults after k chunks were relayed, the
\* outbound stream ends with exactly those k events, the frames of the first
\* k chunks in order: nothing is written after the fault (no further event,
\* no malformed frame, no completion marker) and nothing is taken back.
C11_FaultKeepsPrefix ==
    pc = "aborted" =>
        /\ response.status = 200
        /\ events = [i \in 1..Len(upstream) |-> Frame(upstream[i])]

C11_Witness ==
    /\ pc = "aborted"
    /\ Len(upstream) = 1
    /\ Len(events) = 1

\* C12: if the large-model streaming call fails before any chunk was sent
\* to the client (it fails to start, or faults before its first chunk), the
\* request is surfaced as a server-facing failure with zero events, not as
\* a started event stream that is cut off.
C12_EarlyForwardFailureSurfaces ==
    (fwd_calls # << >> /\ pc \in {"failed", "aborted"} /\ upstream = << >>) =>
        /\ events = << >>
        /\ response.status = 500

\* C13: the body posted to the large model differs from the inbound body in
\* at most the model identifier and the content of the last message: the
\* keys are the same, stream, temperature, max_tokens and tools are
\* unchanged, and so is every earlier message and the last message's role.
C13_ForwardedBodyFrame ==
    fwd_calls # << >> =>
        LET body == fwd_calls[1]
            n == Len(inbound.messages)
        IN  /\ DOMAIN body = DOMAIN inbound
            /\ \A k \in DOMAIN inbound \ {"model", "messages"} : body[k] = inbound[k]
            /\ Len(body.messages) = n
            /\ \A i \in 1..(n - 1) : body.messages[i] = inbound.messages[i]
            /\ body.messages[n].role = inbound.messages[n].role

C13_Witness ==
    /\ fwd_calls # << >>
    /\ fwd_calls[1].model # inbound.model
    /\ LastContent(fwd_calls[1]) # LastContent(inbound)
    /\ fwd_calls[1].tools = << "caller_tool" >>

\* ---- C14: occurrences of a text and the two readings of the substitution
\* positions at which old occurs in s
OccurrencesOf(s, old) ==
    {i \in 1..(Len(s) + 1) :
        i + Len(old) - 1 <= Len(s) /\ SubSeq(s, i, i + Len(old) - 1) = old}

\* s with its first occurrence of old replaced by new
ReplaceFirstOccurrence(s, old, new) ==
    LET i == CHOOSE i \in OccurrencesOf(s, old) : \A j \in OccurrencesOf(s, old) : i <= j
    IN  SubSeq(s, 1, i - 1) \o new \o SubSeq(s, i + Len(old), Len(s))

\* the pieces of s between the non-overlapping occurrences of a non-empty
\* old, taken left to right from position i; cur is the piece being read
RECURSIVE PiecesFrom(_, _, _, _)
PiecesFrom(s, old, i, cur) ==
    IF i > Len(s) THEN << cur >>
    ELSE IF i \in OccurrencesOf(s, old)
         THEN << cur >> \o PiecesFrom(s, old, i + Len(old), << >>)
         ELSE PiecesFrom(s, old, i + 1, Append(cur, s[i]))

\* the first n pieces joined by new
RECURSIVE JoinPieces(_, _, _)
JoinPieces(pieces, new, n) ==
    IF n = 1 THEN pieces[1]
    ELSE JoinPieces(pieces, new, n - 1) \o new \o pieces[n]

\* new before each of the first n characters of s, and after them
RECURSIVE InsertAround(_, _, _)
InsertAround(s, new, n) ==
    IF n = 0 THEN new
    ELSE InsertAround(s, new, n - 1) \o << s[n] >> \o new

\* s with every occurrence of old replaced by new
ReplaceEveryOccurrence(s, old, new) ==
    IF old = << >> THEN InsertAround(s, new, Len(s))
    ELSE JoinPieces(PiecesFrom(s, old, 1, << >>), new, Len(PiecesFrom(s, old, 1, << >>)))

C15_QuestionThenNumberedIssues ==
    (IsClarification(cleanup_result) /\ pc \in {"clarify_yielded", "done"}) =>
        LET a == cleanup_result.tool_calls[
                    FirstClarificationCall(cleanup_result.tool_calls)].arguments
            issues == IF a.ctype = "absent" THEN << >> ELSE a.contradictions
            k == Len(issues)
            text == events[1][2][2].content
        IN  /\ Len(events) = 1
            /\ Len(text) = 2 + 4 * k
            /\ text[1] = (IF a.question = Absent THEN "Please clarify your request."
                          ELSE a.question)
            /\ \A i \in 1..k :
                  /\ text[4 * i - 1] = ToString(i)
                  /\ text[4 * i] = ". "
                  /\ text[4 * i + 1] = issues[i]
                  /\ text[4 * i + 2] = "\n"

C15_Witness ==
    /\ pc = "done"
    /\ IsClarification(cleanup_result)
    /\ cleanup_result.tool_calls[1].arguments.contradictions = << "y", "x", "y" >>
    /\ Len(events) = 1

\* C16: a request whose last message has no usable content (the content is
\* missing, null or the empty string) is rejected before any upstream call:
\* neither the small-model call nor the large-model call is issued for it.
C16_NoContentNoUpstreamCall ==
    LastContent(inbound) \in {Missing, None, << >>} =>
        /\ aux_calls = << >>
        /\ fwd_calls = << >>
        /\ pc \in {"received", "failed"}

\* C17: a request rejected for its shape (stream is not true) gets a
\* client-facing failure, distinguishable from the server-facing failure of a
\* failed small-model or large-model call.
C17_ShapeFailureIsClientFacing ==
    (pc = "failed" /\ openai_client = "client" /\ ~StreamIsTrue(inbound.stream)) =>
        /\ response.status \in 400..499
        /\ response.status # HTTP500("").status

\* C18: when the small model's reply text equals InnerRequest, the forwarded
\* last message content equals the original last message content, wherever
\* the marker pair stands.
C18_SubstitutionIdempotent ==
    (fwd_calls # << >> /\ cleanup_result.content = InnerRequest(LastContent(inbound))) =>
        LastContent(fwd_calls[1]) = LastContent(inbound)

\* C20: when the client disconnects from a forward stream the upstream
\* stream is released with the request task: the task is never finished
\* with the upstream stream still open.
C20_DisconnectReleasesUpstream ==
    pc = "disconnected" => ~stream_open

\* ---- C19: what a request task shows when it runs alone, as a function of
\* its own body, the reply to its own small-model call and the chunks of its
\* own upstream stream
RanAlone(l) ==
    LET c == LastContent(l.inbound)
        u == get_last_user_request(c)
        bad == Precheck(openai_client, l.inbound) # "" \/ c \in {None, Missing}
        kind == ScanToolCalls(l.cleanup_result.tool_calls, 1).kind
        answered == l.cleanup_result.state = "returned"
    IN  /\ l.aux_calls = IF l.pc = "received" \/ bad THEN << >>
                         ELSE << [model |-> mini_deployment, user_turn |-> u,
                                  stream |-> FALSE] >>
        /\ l.pc \in {"clarify", "clarify_yielded"} => answered /\ kind = "clarify"
        /\ l.fwd_calls # << >> => answered /\ kind = "forward" /\ u # None
        /\ l.fwd_calls \in
              {<< >>,
               << [l.inbound EXCEPT
                      !.model = full_deployment,
                      !.messages = SetLastContent(l.inbound.messages,
                          StrReplace(c, u, CleanedContent(l.cleanup_result, c)))] >>}
        /\ l.events =
              IF l.fwd_calls # << >>
              THEN [i \in 1..Len(l.upstream) |-> Frame(l.upstream[i])]
              ELSE IF answered /\ kind = "clarify" /\ l.pc \in {"clarify_yielded", "done"}
              THEN << Frame(ClarificationChunk(l.cleanup_result,
                        ClarificationResponse(l.cleanup_result.tool_calls[
                            FirstClarificationCall(l.cleanup_result.tool_calls)].arguments))) >>
              ELSE << >>
        /\ bad => l.pc \in {"received", "failed"}
        /\ l.response =
              IF l.pc = "failed"
              THEN HTTP500(IF Precheck(openai_client, l.inbound) # ""
                               THEN Precheck(openai_client, l.inbound)
                           ELSE IF c = Missing THEN "KeyError"
                           ELSE IF c = None THEN "TypeError"
                           ELSE IF ~answered THEN "APIError"
                           ELSE IF kind = "raise" \/ u = None THEN "TypeError"
                           ELSE "APIError")
              ELSE IF l.pc \in {"received", "aux_pending", "fwd_pending"} THEN NoResponse
              ELSE StreamingResponse

\* C19: with two request tasks interleaved at their awaits, each task's
\* small-model input, branch, forwarded body, outbound events and failure are
\* what they are when the task runs alone; a failure of one changes nothing
\* in the other.
C19_TasksIndependent == RanAlone(Locals) /\ RanAlone(suspended)

C19_Witness ==
    /\ pc = "failed"
    /\ cleanup_result = RaisedReply
    /\ suspended.pc = "streaming"
    /\ Len(suspended.events) = 1
    /\ LastContent(suspended.fwd_calls[1]) = << "b", OPEN, "b", CLOSE >>
    /\ LastContent(inbound) = << OPEN, "a", CLOSE >>

\* ---- C21, C22: tags and pairs of a text, stated over its tokens.  An
\* opening tag runs from "<prompt" (in any case) to the first ">" after it;
\* a pair is an opening tag with the nearest closing tag after its end.
TagEnd(t, i) == CHOOSE j \in i..Len(t) : HasGT(t[j]) /\ \A m \in i..(j - 1) : ~HasGT(t[m])

OpeningTags(t) == {i \in 1..Len(t) : OpensTag(t[i]) /\ \E j \in i..Len(t) : HasGT(t[j])}

HasCloseAfter(t, j) == \E k \in (j + 1)..Len(t) : ClosesTag(t[k])

NearestClose(t, j) ==
    CHOOSE k \in (j + 1)..Len(t) : ClosesTag(t[k]) /\ \A m \in (j + 1)..(k - 1) : ~ClosesTag(t[m])

\* the starts of the complete pairs that begin at index i or later
PairStartsFrom(t, i) == {o \in OpeningTags(t) : o >= i /\ HasCloseAfter(t, TagEnd(t, o))}

Least(S) == CHOOSE x \in S : \A y \in S : x <= y

PairContent(t, o) == SubSeq(t, TagEnd(t, o) + 1, NearestClose(t, TagEnd(t, o)) - 1)

\* the text from index i on with every pair replaced by its content
\* (keep) or by nothing, pairs taken left to right without overlap
RECURSIVE WithoutPairs(_, _, _)
WithoutPairs(t, i, keep) ==
    IF PairStartsFrom(t, i) = {} THEN SubSeq(t, i, Len(t))
    ELSE LET o == Least(PairStartsFrom(t, i))
         IN  SubSeq(t, i, o - 1) \o (IF keep THEN PairContent(t, o) ELSE << >>)
             \o WithoutPairs(t, NearestClose(t, TagEnd(t, o)) + 1, keep)

\* C21: extract_prompt_content returns, verbatim, what stands between the
\* first opening prompt tag (any case, attributes allowed) and the nearest
\* closing tag after it, the empty text for an empty pair, and None when the
\* text has no complete pair; with several pairs it is the first pair's
\* content, the first element of extract_all_prompt_contents.
C21_FirstPairContent ==
    outcome.fn = "extract_prompt_content" =>
        IF PairStartsFrom(text_arg, 1) = {} THEN outcome.result = None
        ELSE LET first == Least(OpeningTags(text_arg))
             IN  /\ first \in PairStartsFrom(text_arg, 1)
                 /\ outcome.result = PairContent(text_arg, first)
                 /\ outcome.result = extract_all_prompt_contents(text_arg)[1]

C21_Witness ==
    /\ outcome.fn = "extract_prompt_content"
    /\ text_arg = << "<prompt>", "\n", "</PROMPT>", "<prompt>", "</prompt>" >>
    /\ outcome.result = << "\n" >>
    /\ Len(extract_all_prompt_contents(text_arg)) = 2

\* C22: remove_prompt_tags with keep_content returns the text with every
\* pair replaced by the content between its tags, and without keep_content
\* the text with every pair and its content removed; the text outside the
\* pairs is unchanged.
C22_PairsReplacedByContent ==
    outcome.fn = "remove_prompt_tags" =>
        outcome.result = WithoutPairs(text_arg, 1, outcome.keep_content)

\* the reply carries tool calls and none of them names request_clarification
OnlyOtherCapabilities(reply) ==
    /\ reply.state = "returned"
    /\ reply.tool_calls # << >>
    /\ \A i \in 1..Len(reply.tool_calls) : reply.tool_calls[i].name # "request_clarification"

\* C23: a reply whose tool calls name only other capabilities never starts
\* the clarification branch: the request goes on to the forwarding branch,
\* with the reply's free text as the cleaned text when that text is not empty.
C23_OtherCapabilitiesForward ==
    OnlyOtherCapabilities(cleanup_result) =>
        /\ pc \notin {"clarify", "clarify_yielded"}
        /\ fwd_calls # << >>
        /\ ~NoFreeText(cleanup_result) => cleaned_content = cleanup_result.content

\* ---- C24: the two branches of a request, read off what the task has done
InClarifyBranch == pc \in {"clarify", "clarify_yielded"} \/ (pc = "done" /\ fwd_calls = << >>)

InForwardBranch == fwd_calls # << >>

\* at most one call of each kind, and a returned reply in exactly one branch
OneBranch ==
    /\ Len(aux_calls) <= 1
    /\ Len(fwd_calls) <= 1
    /\ cleanup_result.state = "returned" =>
          /\ InClarifyBranch <=> IsClarification(cleanup_result)
          /\ InForwardBranch <=> ~IsClarification(cleanup_result)

\* a step from a request that is done or failed issues no call and no event
NothingAfterEnd ==
    pc \in {"done", "failed"} =>
        /\ pc' = pc
        /\ aux_calls' = aux_calls
        /\ fwd_calls' = fwd_calls
        /\ events' = events

\* C24: the small-model call and the large-model call are each issued at
\* most once; a request whose small-model call returned is in exactly one of
\* the two branches, the clarification branch iff the outcome is
\* Clarification and the forwarding branch iff it is Cleaned; once the
\* request is done or failed no further call or outbound event occurs.
C24_OneBranchThenDone ==
    /\ []OneBranch
    /\ [][NothingAfterEnd]_vars

\* C25: of several tool calls the first one named request_clarification
\* decides, calls with other names before it being skipped: with arguments
\* that parse the clarification branch is taken, on that call's question and
\* issues; with arguments that do not parse no later call is looked at and
\* the request goes to the forwarding branch, even if a later
\* request_clarification call is well-formed.
C25_FirstClarificationCallDecides ==
    (cleanup_result.state = "returned"
        /\ FirstClarificationCall(cleanup_result.tool_calls) > 0) =>
        LET call == cleanup_result.tool_calls[FirstClarificationCall(cleanup_result.tool_calls)]
        IN  IF WellFormedArguments(call.arguments)
            THEN /\ InClarifyBranch
                 /\ ~InForwardBranch
                 /\ pc # "clarify" =>
                       events = << Frame(ClarificationChunk(cleanup_result,
                                         ClarificationResponse(call.arguments))) >>
            ELSE /\ InForwardBranch
                 /\ ~InClarifyBranch

====
